---- MODULE Spec2Model ----
(***************************************************************************)
(* A model of gookit/ext lcache: an in-process key/value cache with        *)
(* per-entry TTL, LRU eviction at a configured capacity and snapshot       *)
(* persistence (src/lcache/cache.go, src/lcache/lcache.go).                *)
(*                                                                         *)
(* The clock is counted in ticks; TicksPerMilli ticks make a millisecond,  *)
(* so that time.Time (finer than a millisecond) and UnixMilli() (whole     *)
(* milliseconds, as stored in Item.Exp) are different things.              *)
(*                                                                         *)
(* container/list is modelled as the sequence of the elements' Values,     *)
(* front first; a *list.Element is the position of the element in that     *)
(* sequence (0: an element that is in no list), and every list operation   *)
(* renumbers the pointers held in lruMap accordingly.                      *)
(***************************************************************************)
EXTENDS Integers, Sequences, FiniteSets, TLC

VARIABLES items, lruList, lruMap, opt, serializers, file, now,
          last, evicted, written, setRun, deadline, refreshed,
          build, scanned, prior, saved, touched, mu, pc

cvars == <<items, lruList, lruMap>>
vars == <<items, lruList, lruMap, opt, serializers, file, now,
          last, evicted, written, setRun, deadline, refreshed,
          build, scanned, prior, saved, touched, mu, pc>>
tvars == <<touched, mu, pc>>
gvars == <<build, scanned, prior, saved, tvars>>
hvars == <<setRun, deadline, refreshed, gvars>>

----------------------------------------------------------------------------
(* Bounds *)

TicksPerMilli == 3
ExtraTicks == 0
MaxCap == 2

StartClock == TicksPerMilli
MaxClock == 2 * TicksPerMilli + ExtraTicks

Keys == {"a", "b", "c"}
TTLs == {-1, 0, 1}
MaxBatch == 2

(* Go values of type any: a type tag and the printed value *)
IntVal == [t |-> "int", s |-> "1"]
StrVal == [t |-> "string", s |-> "x"]
Vals == {IntVal, StrVal}
Nil == [t |-> "nil", s |-> ""]

----------------------------------------------------------------------------
(* Time *)

UnixMilli(t) == t \div TicksPerMilli

(* a variant of ExpOf that takes ttl = 0 for a time to live *)
ExpOfNonNeg(nowT, ttl) == IF ttl >= 0 THEN UnixMilli(nowT + ttl) ELSE 0

(* exp of Set/MSet: 0 when ttl <= 0, else time.Now().Add(ttl).UnixMilli() *)
ExpOf(nowT, ttl) == IF ttl > 0 THEN UnixMilli(nowT + ttl) ELSE 0

isExpired1(it, nowUm) == IF it.Exp = 0 THEN FALSE ELSE nowUm > it.Exp

(* a variant of isExpired that expires an entry in its last millisecond *)
isExpiredGE(it, nowT) == IF it.Exp = 0 THEN FALSE ELSE UnixMilli(nowT) >= it.Exp

isExpired(it, nowT) == IF it.Exp = 0 THEN FALSE ELSE UnixMilli(nowT) > it.Exp

Item(v, e) == [Val |-> v, Exp |-> e]

----------------------------------------------------------------------------
(* Maps *)

MapSet(m, k, v) == [x \in (DOMAIN m) \cup {k} |-> IF x = k THEN v ELSE m[x]]

MapDelete(m, k) == [x \in (DOMAIN m) \ {k} |-> m[x]]

EmptyMap == [x \in {} |-> x]

----------------------------------------------------------------------------
(* container/list, on a cache record c with fields items, lruList, lruMap, *)
(* evicted (the onEvict calls made so far by the running operation) and    *)
(* victims (the keys removeElement has deleted from items so far).         *)

SeqRemoveAt(s, i) == [j \in 1..(Len(s) - 1) |-> IF j < i THEN s[j] ELSE s[j + 1]]

ListRemove(c, e) ==
    IF e = 0 THEN c
    ELSE [c EXCEPT !.lruList = SeqRemoveAt(c.lruList, e),
                   !.lruMap = [k \in DOMAIN c.lruMap |->
                                 IF c.lruMap[k] = e THEN 0
                                 ELSE IF c.lruMap[k] > e THEN c.lruMap[k] - 1
                                 ELSE c.lruMap[k]]]

ListMoveToFront(c, e) ==
    IF e = 0 \/ e = 1 THEN c
    ELSE [c EXCEPT !.lruList = <<c.lruList[e]>> \o SeqRemoveAt(c.lruList, e),
                   !.lruMap = [k \in DOMAIN c.lruMap |->
                                 IF c.lruMap[k] = e THEN 1
                                 ELSE IF c.lruMap[k] # 0 /\ c.lruMap[k] < e
                                      THEN c.lruMap[k] + 1
                                 ELSE c.lruMap[k]]]

(* PushFront(v); the new element is at position 1 *)
ListPushFront(c, v) ==
    [c EXCEPT !.lruList = <<v>> \o c.lruList,
              !.lruMap = [k \in DOMAIN c.lruMap |->
                            IF c.lruMap[k] # 0 THEN c.lruMap[k] + 1 ELSE 0]]

----------------------------------------------------------------------------
(* Cache internals *)

Cur == [items |-> items, lruList |-> lruList, lruMap |-> lruMap,
        evicted |-> <<>>, victims |-> <<>>]

(* a variant of removeElement that leaves the key in lruMap *)
removeElementKeepIndex(c, key, o) ==
    LET c1 == IF key \in DOMAIN c.lruMap
              THEN ListRemove(c, c.lruMap[key])
              ELSE c
        c2 == IF key \in DOMAIN c1.items
              THEN [c1 EXCEPT !.items = MapDelete(c1.items, key),
                              !.victims = Append(c1.victims, key),
                              !.evicted = IF o.OnEvicted
                                          THEN Append(c1.evicted, <<key, c1.items[key].Val>>)
                                          ELSE c1.evicted]
              ELSE c1
    IN [c |-> c2, exists |-> (key \in DOMAIN c.lruMap) \/ (key \in DOMAIN c.items)]

(* a variant of removeElement that calls OnEvicted for a key with no entry *)
removeElementAlwaysNotify(c, key, o) ==
    LET c1 == IF key \in DOMAIN c.lruMap
              THEN [ListRemove(c, c.lruMap[key]) EXCEPT !.lruMap = MapDelete(@, key)]
              ELSE c
        c2 == IF key \in DOMAIN c1.items
              THEN [c1 EXCEPT !.items = MapDelete(c1.items, key),
                              !.victims = Append(c1.victims, key)]
              ELSE c1
        c3 == IF o.OnEvicted
              THEN [c2 EXCEPT !.evicted =
                       Append(c2.evicted,
                              <<key, IF key \in DOMAIN c.items THEN c.items[key].Val ELSE Nil>>)]
              ELSE c2
    IN [c |-> c3, exists |-> (key \in DOMAIN c.lruMap) \/ (key \in DOMAIN c.items)]

(* a variant of removeElement that never calls OnEvicted *)
removeElementSilent(c, key, o) ==
    LET c1 == IF key \in DOMAIN c.lruMap
              THEN [ListRemove(c, c.lruMap[key]) EXCEPT !.lruMap = MapDelete(@, key)]
              ELSE c
        c2 == IF key \in DOMAIN c1.items
              THEN [c1 EXCEPT !.items = MapDelete(c1.items, key),
                              !.victims = Append(c1.victims, key)]
              ELSE c1
    IN [c |-> c2, exists |-> (key \in DOMAIN c.lruMap) \/ (key \in DOMAIN c.items)]

removeElement(c, key, o) ==
    LET c1 == IF key \in DOMAIN c.lruMap
              THEN LET r == ListRemove(c, c.lruMap[key])
                   IN [r EXCEPT !.lruMap = MapDelete(r.lruMap, key)]
              ELSE c
        c2 == IF key \in DOMAIN c1.items
              THEN [c1 EXCEPT !.items = MapDelete(c1.items, key),
                              !.victims = Append(c1.victims, key),
                              !.evicted = IF o.OnEvicted
                                          THEN Append(c1.evicted, <<key, c1.items[key].Val>>)
                                          ELSE c1.evicted]
              ELSE c1
    IN [c |-> c2, exists |-> (key \in DOMAIN c.lruMap) \/ (key \in DOMAIN c.items)]

(* a variant of evict that removes the front of the recency list *)
evictFront(c, o) ==
    IF Len(c.lruList) > 0
    THEN removeElement(c, c.lruList[1], o).c
    ELSE c

(* a variant of evict that removes an expired entry when there is one *)
evictExpiredFirst(c, o) ==
    LET dead == {i \in DOMAIN c.lruList :
                   c.lruList[i] \in DOMAIN c.items /\ isExpired(c.items[c.lruList[i]], now)}
    IN IF Len(c.lruList) = 0 THEN c
       ELSE IF dead # {}
       THEN removeElement(c, c.lruList[CHOOSE i \in dead : \A j \in dead : j <= i], o).c
       ELSE removeElement(c, c.lruList[Len(c.lruList)], o).c

evict(c, o) ==
    IF Len(c.lruList) > 0
    THEN removeElement(c, c.lruList[Len(c.lruList)], o).c
    ELSE c

(* a variant of setItem that does not move a stored key to the front *)
setItemNoMove(c, key, value, exp, o) ==
    IF key \in DOMAIN c.lruMap
    THEN [c EXCEPT !.items = MapSet(c.items, key, Item(value, exp))]
    ELSE LET e == IF Len(c.lruList) >= o.Capacity THEN evict(c, o) ELSE c
             p == ListPushFront(e, key)
         IN [p EXCEPT !.items = MapSet(e.items, key, Item(value, exp)),
                      !.lruMap = MapSet(p.lruMap, key, 1)]

(* a variant of setItem that keeps the value of a stored key *)
setItemKeepOld(c, key, value, exp, o) ==
    IF key \in DOMAIN c.lruMap
    THEN LET m == ListMoveToFront(c, c.lruMap[key])
         IN [m EXCEPT !.items = MapSet(m.items, key, Item(m.items[key].Val, exp))]
    ELSE LET e == IF Len(c.lruList) >= o.Capacity THEN evict(c, o) ELSE c
             p == ListPushFront(e, key)
         IN [p EXCEPT !.items = MapSet(e.items, key, Item(value, exp)),
                      !.lruMap = MapSet(p.lruMap, key, 1)]

(* a variant of setItem that evicts only when the list is over capacity *)
setItemOverfill(c, key, value, exp, o) ==
    IF key \in DOMAIN c.lruMap
    THEN LET m == ListMoveToFront(c, c.lruMap[key])
         IN [m EXCEPT !.items = MapSet(m.items, key, Item(value, exp))]
    ELSE LET e == IF Len(c.lruList) > o.Capacity THEN evict(c, o) ELSE c
             p == ListPushFront(e, key)
         IN [p EXCEPT !.items = MapSet(e.items, key, Item(value, exp)),
                      !.lruMap = MapSet(p.lruMap, key, 1)]

(* the body of Set after exp is computed *)
setItem(c, key, value, exp, o) ==
    IF key \in DOMAIN c.lruMap
    THEN LET m == ListMoveToFront(c, c.lruMap[key])
         IN [m EXCEPT !.items = MapSet(m.items, key, Item(value, exp))]
    ELSE LET e == IF Len(c.lruList) >= o.Capacity THEN evict(c, o) ELSE c
             p == ListPushFront(e, key)
         IN [p EXCEPT !.items = MapSet(e.items, key, Item(value, exp)),
                      !.lruMap = MapSet(p.lruMap, key, 1)]

reset(c) == [c EXCEPT !.items = EmptyMap, !.lruMap = EmptyMap, !.lruList = <<>>]

Commit(c) ==
    /\ items' = c.items
    /\ lruList' = c.lruList
    /\ lruMap' = c.lruMap
    /\ evicted' = c.evicted

----------------------------------------------------------------------------
(* History of writes: written[k] is the value of the last write of k by    *)
(* Set, MSet or LoadFile that no Delete, eviction, lazy expiry, Clear or   *)
(* LoadFile has removed since.                                             *)

RECURSIVE DropAll(_, _)
DropAll(w, ks) == IF ks = <<>> THEN w ELSE DropAll(MapDelete(w, Head(ks)), Tail(ks))

----------------------------------------------------------------------------
(* Operations *)

(* what a returned operation leaves for its caller: its name and argument *)
(* (key, val and ttl of Set; keys, m and ttl of MSet; batch, the keys of   *)
(* MGet in the order given), its results (val and found of Get, found of   *)
(* Has and Delete, keys of Keys, n of Len, res of MGet, err of SaveFile    *)
(* and LoadFile) and the keys removeElement deleted (victims)              *)
NoRes == [op |-> "", key |-> "", val |-> Nil, found |-> FALSE, ttl |-> 0,
          keys |-> {}, n |-> 0, res |-> EmptyMap, err |-> FALSE, victims |-> <<>>,
          batch |-> <<>>, m |-> EmptyMap]

OpRec(op, key, val, found) == [NoRes EXCEPT !.op = op, !.key = key, !.val = val, !.found = found]

Set(key, value, ttl) ==
    LET c == setItem(Cur, key, value, ExpOf(now, ttl), opt)
    IN /\ Commit(c)
       /\ last' = [NoRes EXCEPT !.op = "Set", !.key = key, !.val = value, !.ttl = ttl,
                                !.victims = c.victims]
       /\ written' = MapSet(DropAll(written, c.victims), key, value)
       /\ UNCHANGED <<opt, serializers, file, now>>

(* a variant of Get that leaves an expired entry in place *)
GetNoReap(key) ==
    IF key \notin DOMAIN items \/ isExpired(items[key], now)
    THEN /\ last' = OpRec("Get", key, Nil, FALSE)
         /\ evicted' = <<>>
         /\ UNCHANGED <<cvars, opt, serializers, file, now, written>>
    ELSE LET c == IF key \in DOMAIN lruMap
                  THEN ListMoveToFront(Cur, lruMap[key])
                  ELSE Cur
         IN /\ Commit(c)
            /\ last' = OpRec("Get", key, items[key].Val, TRUE)
            /\ UNCHANGED <<opt, serializers, file, now, written>>

(* a variant of Get that leaves a key it found where it is in the list *)
GetNoTouch(key) ==
    IF key \notin DOMAIN items
    THEN /\ last' = OpRec("Get", key, Nil, FALSE)
         /\ evicted' = <<>>
         /\ UNCHANGED <<cvars, opt, serializers, file, now, written>>
    ELSE IF isExpired(items[key], now)
    THEN LET c == removeElement(Cur, key, opt).c
         IN /\ Commit(c)
            /\ last' = [NoRes EXCEPT !.op = "Get", !.key = key, !.victims = c.victims]
            /\ written' = DropAll(written, c.victims)
            /\ UNCHANGED <<opt, serializers, file, now>>
    ELSE /\ last' = OpRec("Get", key, items[key].Val, TRUE)
         /\ evicted' = <<>>
         /\ UNCHANGED <<cvars, opt, serializers, file, now, written>>

Get(key) ==
    IF key \notin DOMAIN items
    THEN /\ last' = OpRec("Get", key, Nil, FALSE)
         /\ evicted' = <<>>
         /\ UNCHANGED <<cvars, opt, serializers, file, now, written>>
    ELSE IF isExpired(items[key], now)
    THEN LET c == removeElement(Cur, key, opt).c
         IN /\ Commit(c)
            /\ last' = [NoRes EXCEPT !.op = "Get", !.key = key, !.victims = c.victims]
            /\ written' = DropAll(written, c.victims)
            /\ UNCHANGED <<opt, serializers, file, now>>
    ELSE LET c == IF key \in DOMAIN lruMap
                  THEN ListMoveToFront(Cur, lruMap[key])
                  ELSE Cur
         IN /\ Commit(c)
            /\ last' = OpRec("Get", key, items[key].Val, TRUE)
            /\ UNCHANGED <<opt, serializers, file, now, written>>

(* the body of Get on the cache record c at the time nowT: the record it   *)
(* leaves and the two values it returns                                    *)
getItem(c, key, nowT, o) ==
    IF key \notin DOMAIN c.items
    THEN [c |-> c, val |-> Nil, found |-> FALSE]
    ELSE IF isExpired(c.items[key], nowT)
    THEN [c |-> removeElement(c, key, o).c, val |-> Nil, found |-> FALSE]
    ELSE [c |-> IF key \in DOMAIN c.lruMap THEN ListMoveToFront(c, c.lruMap[key]) ELSE c,
          val |-> c.items[key].Val, found |-> TRUE]

(* a variant of mGetLoop that removes an expired entry, as Get does *)
RECURSIVE mGetLoopReap(_, _, _, _)
mGetLoopReap(c, res, keys, nowUm) ==
    IF keys = <<>> THEN [c |-> c, res |-> res]
    ELSE LET key == Head(keys)
         IN IF key \notin DOMAIN c.items
            THEN mGetLoopReap(c, MapSet(res, key, Nil), Tail(keys), nowUm)
            ELSE IF isExpired1(c.items[key], nowUm)
            THEN mGetLoopReap(removeElement(c, key, [OnEvicted |-> FALSE]).c,
                              MapSet(res, key, Nil), Tail(keys), nowUm)
            ELSE LET m == IF key \in DOMAIN c.lruMap
                          THEN ListMoveToFront(c, c.lruMap[key])
                          ELSE c
                 IN mGetLoopReap(m, MapSet(res, key, c.items[key].Val), Tail(keys), nowUm)

(* the loop of MGet over keys[i..]; res is the result map built so far *)
RECURSIVE mGetLoop(_, _, _, _)
mGetLoop(c, res, keys, nowUm) ==
    IF keys = <<>> THEN [c |-> c, res |-> res]
    ELSE LET key == Head(keys)
         IN IF key \notin DOMAIN c.items \/ isExpired1(c.items[key], nowUm)
            THEN mGetLoop(c, MapSet(res, key, Nil), Tail(keys), nowUm)
            ELSE LET m == IF key \in DOMAIN c.lruMap
                          THEN ListMoveToFront(c, c.lruMap[key])
                          ELSE c
                 IN mGetLoop(m, MapSet(res, key, c.items[key].Val), Tail(keys), nowUm)

MGet(keys) ==
    LET r == mGetLoop(Cur, EmptyMap, keys, UnixMilli(now))
    IN /\ Commit(r.c)
       /\ last' = [NoRes EXCEPT !.op = "MGet", !.res = r.res, !.batch = keys]
       /\ UNCHANGED <<opt, serializers, file, now, written>>

(* a variant of mSetLoop that makes room for the whole batch before it     *)
(* writes: the keys of the batch are never evicted by the batch            *)
RECURSIVE mSetLoopRoomFirst(_, _, _, _, _, _)
mSetLoopRoomFirst(c, w, order, m, exp, o) ==
    IF order = <<>> THEN [c |-> c, w |-> w]
    ELSE LET key == Head(order)
             last1 == IF c.lruList = <<>> THEN key ELSE c.lruList[Len(c.lruList)]
             c2 == IF key \in DOMAIN c.lruMap
                   THEN LET mv == ListMoveToFront(c, c.lruMap[key])
                        IN [mv EXCEPT !.items = MapSet(mv.items, key, Item(m[key], exp))]
                   ELSE LET e == IF Len(c.lruList) >= o.Capacity /\ last1 \notin DOMAIN m
                                 THEN evict(c, o) ELSE c
                            e2 == [e EXCEPT !.items = MapSet(e.items, key, Item(m[key], exp))]
                            p == ListPushFront(e2, key)
                        IN [p EXCEPT !.lruMap = MapSet(p.lruMap, key, 1)]
             w2 == MapSet(DropAll(w, SubSeq(c2.victims, Len(c.victims) + 1, Len(c2.victims))),
                          key, m[key])
         IN mSetLoopRoomFirst(c2, w2, Tail(order), m, exp, o)

(* the loop of MSet, visiting the keys of m in the given order; w is the   *)
(* history of writes kept alongside                                        *)
RECURSIVE mSetLoop(_, _, _, _, _, _)
mSetLoop(c, w, order, m, exp, o) ==
    IF order = <<>> THEN [c |-> c, w |-> w]
    ELSE LET key == Head(order)
             value == m[key]
             c2 == IF key \in DOMAIN c.lruMap
                   THEN LET mv == ListMoveToFront(c, c.lruMap[key])
                        IN [mv EXCEPT !.items = MapSet(mv.items, key, Item(value, exp))]
                   ELSE LET e == IF Len(c.lruList) >= o.Capacity THEN evict(c, o) ELSE c
                            e2 == [e EXCEPT !.items = MapSet(e.items, key, Item(value, exp))]
                            p == ListPushFront(e2, key)
                        IN [p EXCEPT !.lruMap = MapSet(p.lruMap, key, 1)]
             w2 == MapSet(DropAll(w, SubSeq(c2.victims, Len(c.victims) + 1, Len(c2.victims))),
                          key, m[key])
         IN mSetLoop(c2, w2, Tail(order), m, exp, o)

(* Go ranges over a map in an unspecified order *)
Orders(S) == {s \in [1..Cardinality(S) -> S] : \A i, j \in DOMAIN s : i # j => s[i] # s[j]}

MSet(m, ttl, order) ==
    LET r == mSetLoop(Cur, written, order, m, ExpOf(now, ttl), opt)
    IN /\ Commit(r.c)
       /\ last' = [NoRes EXCEPT !.op = "MSet", !.keys = DOMAIN m, !.ttl = ttl,
                                !.m = m, !.victims = r.c.victims]
       /\ written' = r.w
       /\ UNCHANGED <<opt, serializers, file, now>>

(* a variant of Has that looks at the expiry *)
HasLive(key) ==
    /\ last' = OpRec("Has", key, Nil, key \in DOMAIN items /\ ~isExpired(items[key], now))
    /\ evicted' = <<>>
    /\ UNCHANGED <<cvars, opt, serializers, file, now, written>>

Has(key) ==
    /\ last' = OpRec("Has", key, Nil, key \in DOMAIN items)
    /\ evicted' = <<>>
    /\ UNCHANGED <<cvars, opt, serializers, file, now, written>>

KeysOf(its, nowUm) == {k \in DOMAIN its : ~isExpired1(its[k], nowUm)}

(* a variant of Keys that removes the expired entries it passes *)
KeysOpReap ==
    LET live == KeysOf(items, UnixMilli(now))
    IN /\ last' = [NoRes EXCEPT !.op = "Keys", !.keys = live]
       /\ items' = [k \in live |-> items[k]]
       /\ lruList' = SelectSeq(lruList, LAMBDA k : k \in live)
       /\ lruMap' = [k \in live |->
                       Cardinality({i \in 1..lruMap[k] : lruList[i] \in live})]
       /\ evicted' = <<>>
       /\ UNCHANGED <<opt, serializers, file, now, written>>

KeysOp ==
    /\ last' = [NoRes EXCEPT !.op = "Keys", !.keys = KeysOf(items, UnixMilli(now))]
    /\ evicted' = <<>>
    /\ UNCHANGED <<cvars, opt, serializers, file, now, written>>

(* a variant of Len that leaves out the expired entries *)
LenOfLive(its) == Cardinality({k \in DOMAIN its : ~isExpired(its[k], now)})

LenOf(its) == Cardinality(DOMAIN its)

LenOp ==
    /\ last' = [NoRes EXCEPT !.op = "Len", !.n = LenOf(items)]
    /\ evicted' = <<>>
    /\ UNCHANGED <<cvars, opt, serializers, file, now, written>>

Delete(key) ==
    LET r == removeElement(Cur, key, opt)
    IN /\ Commit(r.c)
       /\ last' = [NoRes EXCEPT !.op = "Delete", !.key = key, !.found = r.exists,
                                !.victims = r.c.victims]
       /\ written' = DropAll(written, r.c.victims)
       /\ UNCHANGED <<opt, serializers, file, now>>

(* a variant of Clear that removes the entries one by one *)
RECURSIVE clearLoop(_, _)
clearLoop(c, o) ==
    IF c.lruList = <<>> THEN c
    ELSE clearLoop(removeElement(c, c.lruList[1], o).c, o)

ClearByDelete ==
    /\ Commit(clearLoop(Cur, opt))
    /\ last' = OpRec("Clear", "", Nil, FALSE)
    /\ written' = EmptyMap
    /\ UNCHANGED <<opt, serializers, file, now>>

Clear ==
    /\ Commit(reset(Cur))
    /\ last' = OpRec("Clear", "", Nil, FALSE)
    /\ written' = EmptyMap
    /\ UNCHANGED <<opt, serializers, file, now>>

(* Configure(WithCapacity(capacity)) *)
ConfigureCapacity(capacity) ==
    /\ opt' = [opt EXCEPT !.Capacity = capacity]
    /\ last' = [NoRes EXCEPT !.op = "Configure"]
    /\ evicted' = <<>>
    /\ UNCHANGED <<cvars, serializers, file, now, written>>

(* Configure(WithOnEvictFn(fn)); fn is an observer (TRUE) or nil (FALSE) *)
ConfigureOnEvict(fn) ==
    /\ opt' = [opt EXCEPT !.OnEvicted = fn]
    /\ last' = [NoRes EXCEPT !.op = "Configure"]
    /\ evicted' = <<>>
    /\ UNCHANGED <<cvars, serializers, file, now, written>>

----------------------------------------------------------------------------
(* The registry of serializers.  The package-level map `serializers` and   *)
(* SetSerializer are in the source twice: in lcache.go, which registers    *)
(* "json", and in serializer.go, which registers "json" and "gob"; `build` *)
(* is the file a build takes them from.  Of a registered serializer the    *)
(* model keeps the name.                                                   *)

Builds == {"lcache.go", "serializer.go"}

Names == {"json", "gob", "json2"}

Builtin(b) == IF b = "lcache.go" THEN {"json"} ELSE {"json", "gob"}

(* the implementation behind a name: GOBSerializer for "gob", and          *)
(* JSONSerializer for "json" and for the names the callers register        *)
Impl(name) == IF name = "gob" THEN "gob" ELSE "json"

(* SetSerializer(name, serializer); nonNil: serializer != nil *)
SetSerializer(name, nonNil) ==
    /\ serializers' = IF nonNil THEN serializers \cup {name}
                      ELSE IF build = "lcache.go" THEN serializers \ {name}
                      ELSE serializers
    /\ last' = [NoRes EXCEPT !.op = "SetSerializer", !.key = name, !.found = nonNil]
    /\ evicted' = <<>>
    /\ UNCHANGED <<cvars, opt, file, now, written>>

(* Configure(WithSerializer(name)): WithSerializer panics before Configure *)
(* is entered when the name is not registered                              *)
(* a variant of ConfigureSerializer in which WithSerializer checks nothing *)
ConfigureSerializerUnchecked(name) ==
    /\ opt' = [opt EXCEPT !.Serializer = name]
    /\ last' = [NoRes EXCEPT !.op = "Configure", !.key = name]
    /\ evicted' = <<>>
    /\ UNCHANGED <<cvars, serializers, file, now, written>>

ConfigureSerializer(name) ==
    /\ IF name \notin serializers
       THEN /\ last' = [NoRes EXCEPT !.op = "WithSerializer", !.key = name, !.err = TRUE]
            /\ UNCHANGED opt
       ELSE /\ opt' = [opt EXCEPT !.Serializer = name]
            /\ last' = [NoRes EXCEPT !.op = "Configure", !.key = name]
    /\ evicted' = <<>>
    /\ UNCHANGED <<cvars, serializers, file, now, written>>

----------------------------------------------------------------------------
(* Persistence.  JSONSerializer: EncodeTo writes a Go value as a JSON      *)
(* value, DecodeFrom reads a JSON value into an any (a JSON number comes   *)
(* back as a float64).                                                     *)

JSONEncode(v) ==
    IF v.t \in {"int", "float64"} THEN [t |-> "number", s |-> v.s]
    ELSE IF v.t = "string" THEN [t |-> "string", s |-> v.s]
    ELSE [t |-> "null", s |-> ""]

JSONDecode(j) ==
    IF j.t = "number" THEN [t |-> "float64", s |-> j.s]
    ELSE IF j.t = "string" THEN [t |-> "string", s |-> j.s]
    ELSE Nil

(* the content of a file: none (no such file), empty, or a JSON document   *)
(* mapping each key to {"v": value, "e": exp}                              *)
NoFile == [kind |-> "none", data |-> EmptyMap]
EmptyFile == [kind |-> "empty", data |-> EmptyMap]
JSONFile(data) == [kind |-> "json", data |-> data]

(* `file` is the content of the one path the model tracks; any other path  *)
(* belongs to the environment: what is read from it is an input, what is   *)
(* written to it is not kept.                                              *)
Tracked == "f"

WriteFile(filename, content) == IF filename = Tracked THEN content ELSE file

(* SaveFile opens the file with OpenTruncFile before it resolves the       *)
(* serializer, so a failure from there on leaves the file empty.           *)
(* GOBSerializer.EncodeTo fails on data: its values are *Item held in an   *)
(* any, a type that is not registered with gob.  No file of the model is   *)
(* in gob, so GOBSerializer.DecodeFrom fails as well.                      *)

(* data of SaveFile: the entries that are not expired at nowUm *)
saveData(its, nowUm) == [k \in {x \in DOMAIN its : ~isExpired1(its[x], nowUm)} |-> its[k]]

(* a variant of SaveFile that falls back on JSONSerializer when the name   *)
(* is not registered                                                       *)
SaveFileDefaultJSON(filename) ==
    LET data == saveData(items, UnixMilli(now))
    IN /\ evicted' = <<>>
       /\ IF DOMAIN data = {}
          THEN /\ last' = [NoRes EXCEPT !.op = "SaveFile"]
               /\ UNCHANGED file
          ELSE IF opt.Serializer \in serializers /\ Impl(opt.Serializer) = "gob"
          THEN /\ file' = WriteFile(filename, EmptyFile)
               /\ last' = [NoRes EXCEPT !.op = "SaveFile", !.err = TRUE]
          ELSE /\ file' = WriteFile(filename,
                             JSONFile([k \in DOMAIN data |->
                                        [v |-> JSONEncode(data[k].Val), e |-> data[k].Exp]]))
               /\ last' = [NoRes EXCEPT !.op = "SaveFile"]
       /\ UNCHANGED <<cvars, opt, serializers, now, written>>

(* a variant of SaveFile that opens the file before it looks at the data *)
SaveFileTruncFirst(filename) ==
    LET data == saveData(items, UnixMilli(now))
    IN /\ evicted' = <<>>
       /\ IF DOMAIN data = {}
          THEN /\ last' = [NoRes EXCEPT !.op = "SaveFile"]
               /\ file' = WriteFile(filename, EmptyFile)
          ELSE IF \/ opt.Serializer \notin serializers
                  \/ Impl(opt.Serializer) = "gob"
          THEN /\ file' = WriteFile(filename, EmptyFile)
               /\ last' = [NoRes EXCEPT !.op = "SaveFile", !.err = TRUE]
          ELSE /\ file' = WriteFile(filename,
                             JSONFile([k \in DOMAIN data |->
                                        [v |-> JSONEncode(data[k].Val), e |-> data[k].Exp]]))
               /\ last' = [NoRes EXCEPT !.op = "SaveFile"]
       /\ UNCHANGED <<cvars, opt, serializers, now, written>>

SaveFile(filename) ==
    LET data == saveData(items, UnixMilli(now))
    IN /\ evicted' = <<>>
       /\ IF DOMAIN data = {}
          THEN /\ last' = [NoRes EXCEPT !.op = "SaveFile"]
               /\ UNCHANGED file
          ELSE IF \/ opt.Serializer \notin serializers
                  \/ Impl(opt.Serializer) = "gob"
          THEN /\ file' = WriteFile(filename, EmptyFile)
               /\ last' = [NoRes EXCEPT !.op = "SaveFile", !.err = TRUE]
          ELSE /\ file' = WriteFile(filename,
                             JSONFile([k \in DOMAIN data |->
                                        [v |-> JSONEncode(data[k].Val), e |-> data[k].Exp]]))
               /\ last' = [NoRes EXCEPT !.op = "SaveFile"]
       /\ UNCHANGED <<cvars, opt, serializers, now, written>>

(* LoadFile stores &v for the variable v of its range loop; v is taken to  *)
(* be a new variable in each iteration (Go 1.22), as TestSaveFileAndLoadFile *)
(* needs to read back two different values.                                *)

(* a variant of loadLoop that restores the expired entries too *)
RECURSIVE loadLoopAll(_, _, _, _)
loadLoopAll(c, order, data, nowUm) ==
    IF order = <<>> THEN c
    ELSE LET k == Head(order)
             v == Item(JSONDecode(data[k].v), data[k].e)
             p == ListPushFront(c, k)
         IN loadLoopAll([p EXCEPT !.items = MapSet(c.items, k, v),
                                  !.lruMap = MapSet(p.lruMap, k, 1)],
                        Tail(order), data, nowUm)

(* the loop of LoadFile over the decoded data, visited in the given order *)
RECURSIVE loadLoop(_, _, _, _)
loadLoop(c, order, data, nowUm) ==
    IF order = <<>> THEN c
    ELSE LET k == Head(order)
             v == Item(JSONDecode(data[k].v), data[k].e)
         IN IF ~isExpired1(v, nowUm)
            THEN LET p == ListPushFront(c, k)
                 IN loadLoop([p EXCEPT !.items = MapSet(c.items, k, v),
                                       !.lruMap = MapSet(p.lruMap, k, 1)],
                             Tail(order), data, nowUm)
            ELSE loadLoop(c, Tail(order), data, nowUm)

(* a variant of LoadFile that resets the cache before it opens the file *)
LoadFileResetFirst(filename, other, order) ==
    LET content == IF filename = Tracked THEN file ELSE other
    IN /\ order \in Orders(DOMAIN content.data)
       /\ IF \/ content.kind = "none"
             \/ opt.Serializer \notin serializers
             \/ content.kind # Impl(opt.Serializer)
          THEN /\ last' = [NoRes EXCEPT !.op = "LoadFile", !.err = TRUE]
               /\ Commit(reset(Cur))
               /\ written' = EmptyMap
          ELSE LET c == loadLoop(reset(Cur), order, content.data, UnixMilli(now))
               IN /\ Commit(c)
                  /\ last' = [NoRes EXCEPT !.op = "LoadFile"]
                  /\ written' = [k \in DOMAIN c.items |-> c.items[k].Val]
       /\ UNCHANGED <<opt, serializers, file, now>>

(* LoadFile(filename) where other is the content of the file when it is    *)
(* not the tracked one, and order the order in which Go ranges over data   *)
LoadFile(filename, other, order) ==
    LET content == IF filename = Tracked THEN file ELSE other
    IN /\ order \in Orders(DOMAIN content.data)
       /\ IF \/ content.kind = "none"
             \/ opt.Serializer \notin serializers
             \/ content.kind # Impl(opt.Serializer)
          THEN /\ last' = [NoRes EXCEPT !.op = "LoadFile", !.err = TRUE]
               /\ evicted' = <<>>
               /\ UNCHANGED <<cvars, written>>
          ELSE LET c == loadLoop(reset(Cur), order, content.data, UnixMilli(now))
               IN /\ Commit(c)
                  /\ last' = [NoRes EXCEPT !.op = "LoadFile"]
                  /\ written' = [k \in DOMAIN c.items |-> c.items[k].Val]
       /\ UNCHANGED <<opt, serializers, file, now>>

Tick ==
    /\ now < MaxClock
    /\ now' = now + 1
    /\ UNCHANGED <<cvars, opt, serializers, file, last, evicted, written>>

(* `last` holds the operation that has just returned with its results and  *)
(* `evicted` the onEvict calls it made, until the caller has taken them    *)
Idle == last = NoRes

Return ==
    /\ ~Idle
    /\ last' = NoRes
    /\ evicted' = <<>>
    /\ UNCHANGED <<cvars, opt, serializers, file, now, written, hvars>>

----------------------------------------------------------------------------

(* the goroutines that call the cache, the state of c.mu (w: the goroutine *)
(* that holds the lock, or NoOne; r: the goroutines that hold the read     *)
(* lock) and the position of a goroutine that is in no call                *)
Goroutines == {"g1", "g2"}
NoOne == "-"
Unlocked == [w |-> NoOne, r |-> {}]
NoItem == Item(Nil, 0)
Resting == [op |-> "", at |-> "idle", key |-> "", arg |-> 0, it |-> NoItem, cb |-> ""]

(* no snapshot of the cache has been taken *)
NoPrior == [taken |-> FALSE, items |-> EmptyMap]

(* no SaveFile is on record *)
NoSaved == [stage |-> "none", items |-> EmptyMap, at |-> 0]

(* what a file of the environment may hold *)
DocItems == {[v |-> [t |-> "string", s |-> "x"], e |-> 0],
             [v |-> [t |-> "number", s |-> "1"], e |-> 1]}
Contents == {NoFile, EmptyFile} \cup
            {JSONFile(d) : d \in UNION {[S -> DocItems] :
                                          S \in {T \in SUBSET Keys : Cardinality(T) <= MaxBatch}}}

(* arguments of the batch operations *)
BatchKeys == UNION {[1..n -> Keys] : n \in 0..MaxBatch}
BatchMaps == UNION {[S -> Vals] : S \in {T \in SUBSET Keys : Cardinality(T) <= MaxBatch}}

(* New(optFns...) in a build that takes the registry from the file b *)
InitBuild(b) ==
    /\ items = EmptyMap
    /\ lruList = <<>>
    /\ lruMap = EmptyMap
    /\ opt \in [Capacity : 1..MaxCap, Serializer : {"json"}, OnEvicted : BOOLEAN]
    /\ build = b
    /\ serializers = Builtin(b)
    /\ file = NoFile
    /\ now = StartClock
    /\ last = NoRes
    /\ evicted = <<>>
    /\ written = EmptyMap
    /\ setRun = <<>>
    /\ deadline = EmptyMap
    /\ refreshed = <<>>
    /\ scanned = {}
    /\ prior = NoPrior
    /\ saved = NoSaved
    /\ touched = <<>>
    /\ mu = Unlocked
    /\ pc = [g \in Goroutines |-> Resting]

Init == InitBuild("lcache.go")

(* a call made when no result is pending *)
Call(A) == Idle /\ A /\ UNCHANGED hvars

Next ==
    \/ \E k \in Keys, v \in Vals, t \in TTLs : Call(Set(k, v, t))
    \/ \E k \in Keys : Call(Get(k))
    \/ \E ks \in BatchKeys : Call(MGet(ks))
    \/ \E m \in BatchMaps, t \in TTLs : \E order \in Orders(DOMAIN m) : Call(MSet(m, t, order))
    \/ \E k \in Keys : Call(Has(k))
    \/ Call(KeysOp)
    \/ Call(LenOp)
    \/ \E k \in Keys : Call(Delete(k))
    \/ Call(Clear)
    \/ \E n \in 1..MaxCap : Call(ConfigureCapacity(n))
    \/ \E fn \in BOOLEAN : Call(ConfigureOnEvict(fn))
    \/ Call(SaveFile("other"))
    \/ \E content \in Contents : \E order \in Orders(DOMAIN content.data) :
          Call(LoadFile("other", content, order))
    \/ Call(Tick)
    \/ Return

Spec == Init /\ [][Next]_vars

----------------------------------------------------------------------------
(* Scenario: a cache that starts empty and is filled by Set of distinct    *)
(* new keys, at most Capacity + 1 of them, with no other operation in      *)
(* between; Keys() is called once the run is complete.  setRun is the run: *)
(* each key with its value and its deadline t0 + ttl in ticks (0: ttl <=   *)
(* 0).                                                                     *)

RunKeys(r) == {r[i].key : i \in DOMAIN r}

LRUSet(k, v, t) ==
    /\ Idle
    /\ Len(setRun) <= opt.Capacity
    /\ k \notin RunKeys(setRun)
    /\ Set(k, v, t)
    /\ setRun' = Append(setRun, [key |-> k, val |-> v,
                                 deadline |-> IF t > 0 THEN now + t ELSE 0])
    /\ UNCHANGED <<deadline, refreshed, gvars>>

LRUKeys ==
    /\ Len(setRun) = opt.Capacity + 1
    /\ Call(KeysOp)

NextLRU ==
    \/ \E k \in Keys, v \in Vals, t \in TTLs : LRUSet(k, v, t)
    \/ LRUKeys
    \/ Call(Tick)
    \/ Return

SpecLRU == Init /\ [][NextLRU]_vars

----------------------------------------------------------------------------
(* Scenario: refreshed is <<k>> when the operation that returned last was  *)
(* a Set on the stored key k, <<k, "next">> when it is the operation right *)
(* after such a Set, and <<>> otherwise.                                   *)

Aged == IF Len(refreshed) = 1 THEN <<refreshed[1], "next">> ELSE <<>>

RefreshSet(k, v, t) ==
    /\ Idle
    /\ Set(k, v, t)
    /\ refreshed' = IF k \in DOMAIN items THEN <<k>> ELSE Aged
    /\ UNCHANGED <<setRun, deadline, gvars>>

RefreshCall(A) == Idle /\ A /\ refreshed' = Aged /\ UNCHANGED <<setRun, deadline, gvars>>

NextRefresh ==
    \/ \E k \in Keys, v \in Vals, t \in TTLs : RefreshSet(k, v, t)
    \/ \E m \in BatchMaps : \E order \in Orders(DOMAIN m) :
          RefreshCall(MSet(m, 0, order))
    \/ \E n \in 1..MaxCap : RefreshCall(ConfigureCapacity(n))
    \/ Return

SpecRefresh == Init /\ [][NextRefresh]_vars

----------------------------------------------------------------------------
(* Scenario: deadline[k] is the deadline t0 + ttl in ticks (0: ttl <= 0)   *)
(* of the write of k by Set or MSet that is still in force (not deleted,   *)
(* evicted, cleared or replaced).  A Get drops an entry from it only where *)
(* the entry was written with ttl > 0.                                     *)

TTLCall(A, ws, t) ==
    /\ Idle
    /\ A
    /\ deadline' = [k \in (DOMAIN written') \cup
                          (IF last'.op = "Get"
                           THEN {x \in DOMAIN deadline : deadline[x] = 0}
                           ELSE {}) |->
                      IF k \in ws /\ k \in DOMAIN written'
                      THEN (IF t > 0 THEN now + t ELSE 0)
                      ELSE deadline[k]]
    /\ UNCHANGED <<setRun, refreshed, gvars>>

NextTTL ==
    \/ \E k \in Keys, v \in Vals, t \in TTLs : TTLCall(Set(k, v, t), {k}, t)
    \/ \E m \in BatchMaps, t \in TTLs : \E order \in Orders(DOMAIN m) :
          TTLCall(MSet(m, t, order), DOMAIN m, t)
    \/ \E k \in Keys : TTLCall(Get(k), {}, 0)
    \/ \E k \in Keys : TTLCall(Delete(k), {}, 0)
    \/ TTLCall(Clear, {}, 0)
    \/ TTLCall(KeysOp, {}, 0)
    \/ Call(Tick)
    \/ Return

InitTTL == Init /\ opt.OnEvicted

SpecTTL == InitTTL /\ [][NextTTL]_vars

----------------------------------------------------------------------------
(* Scenario: scanned holds the keys Get has been called on since the clock *)
(* last advanced and since the last Set, and "*" when in that time Keys()  *)
(* has run, or an MGet whose keys include every stored key.                *)

ScanCall(A, s) ==
    /\ Idle
    /\ A
    /\ scanned' = s
    /\ UNCHANGED <<setRun, deadline, refreshed, build, prior, saved, tvars>>

NextScan ==
    \/ \E k \in Keys, v \in Vals, t \in TTLs : ScanCall(Set(k, v, t), {})
    \/ \E k \in Keys : ScanCall(Get(k), scanned \cup {k})
    \/ \E ks \in BatchKeys :
          ScanCall(MGet(ks), scanned \cup (IF DOMAIN items \subseteq {ks[i] : i \in DOMAIN ks}
                                          THEN {"*"} ELSE {}))
    \/ ScanCall(KeysOp, scanned \cup {"*"})
    \/ ScanCall(LenOp, scanned)
    \/ ScanCall(Tick, {})
    \/ Return

SpecScan == Init /\ [][NextScan]_vars

----------------------------------------------------------------------------
(* Scenario: persistence to the tracked file.  prior is the content of the *)
(* cache before the Clear or LoadFile that returned last.  saved follows   *)
(* the sequence SaveFile; Clear; LoadFile made with no other call in       *)
(* between: the stage reached, the content of the cache when SaveFile ran  *)
(* and the clock value at that time.                                       *)

FileKeys == {"a", "b"}
FileTTLs == {0, 1}

Taken == [taken |-> TRUE, items |-> items]

FileCall(A, p, sv) ==
    /\ Idle
    /\ A
    /\ prior' = p
    /\ saved' = sv
    /\ UNCHANGED <<setRun, deadline, refreshed, build, scanned, tvars>>

ReturnFile ==
    /\ ~Idle
    /\ last' = NoRes
    /\ evicted' = <<>>
    /\ prior' = NoPrior
    /\ saved' = IF saved.stage = "loaded" THEN NoSaved ELSE saved
    /\ UNCHANGED <<cvars, opt, serializers, file, now, written,
                   setRun, deadline, refreshed, build, scanned, tvars>>

NextFile ==
    \/ \E k \in FileKeys, v \in Vals, t \in FileTTLs :
          FileCall(Set(k, v, t), NoPrior, NoSaved)
    \/ FileCall(SaveFile(Tracked), NoPrior,
                [stage |-> "saved", items |-> items, at |-> now])
    \/ FileCall(Clear, Taken,
                IF saved.stage = "saved" THEN [saved EXCEPT !.stage = "cleared"]
                ELSE NoSaved)
    \/ \E order \in Orders(DOMAIN file.data) :
          FileCall(LoadFile(Tracked, NoFile, order), Taken,
                   IF saved.stage = "cleared" THEN [saved EXCEPT !.stage = "loaded"]
                   ELSE NoSaved)
    \/ FileCall(Tick, prior, saved)
    \/ ReturnFile

InitFile == Init /\ opt.Capacity = MaxCap /\ opt.OnEvicted

SpecFile == InitFile /\ [][NextFile]_vars

----------------------------------------------------------------------------
(* Scenario: the registry of serializers, in either build, with            *)
(* persistence to the tracked file.                                        *)

SerKeys == {"a"}

NextSer ==
    \/ \E name \in Names, nonNil \in BOOLEAN : Call(SetSerializer(name, nonNil))
    \/ \E name \in Names : Call(ConfigureSerializer(name))
    \/ \E k \in SerKeys, v \in Vals, t \in FileTTLs : Call(Set(k, v, t))
    \/ Call(SaveFile(Tracked))
    \/ \E order \in Orders(DOMAIN file.data) : Call(LoadFile(Tracked, NoFile, order))
    \/ Call(Tick)
    \/ Return

InitSer == \E b \in Builds : InitBuild(b) /\ opt.Capacity = MaxCap /\ opt.OnEvicted

SpecSer == InitSer /\ [][NextSer]_vars

----------------------------------------------------------------------------
(* Scenario: a cache whose capacity stays as constructed and on which      *)
(* LoadFile is never called.  touched holds the stored keys by their last  *)
(* touch, the most recent first: a touch is a write by Set or MSet, or a   *)
(* Get or MGet that found the key stored and not expired.                  *)

RECURSIVE Touch(_, _)
Touch(t, ks) ==
    IF ks = <<>> THEN t
    ELSE Touch(<<Head(ks)>> \o SelectSeq(t, LAMBDA k : k # Head(ks)), Tail(ks))

(* is the key stored and not expired when the call starts *)
Live(k) == k \in DOMAIN items /\ ~isExpired(items[k], now)

TouchCall(A, ks) ==
    /\ Idle
    /\ A
    /\ touched' = SelectSeq(Touch(touched, ks), LAMBDA k : k \in DOMAIN items')
    /\ UNCHANGED <<setRun, deadline, refreshed, build, scanned, prior, saved, mu, pc>>

NextTouch ==
    \/ \E k \in Keys, v \in Vals, t \in TTLs : TouchCall(Set(k, v, t), <<k>>)
    \/ \E m \in BatchMaps, t \in TTLs : \E order \in Orders(DOMAIN m) :
          TouchCall(MSet(m, t, order), order)
    \/ \E k \in Keys : TouchCall(Get(k), IF Live(k) THEN <<k>> ELSE <<>>)
    \/ \E ks \in BatchKeys : TouchCall(MGet(ks), SelectSeq(ks, Live))
    \/ \E k \in Keys : TouchCall(Has(k), <<>>)
    \/ TouchCall(KeysOp, <<>>)
    \/ TouchCall(LenOp, <<>>)
    \/ TouchCall(SaveFile("other"), <<>>)
    \/ \E k \in Keys : TouchCall(Delete(k), <<>>)
    \/ TouchCall(Clear, <<>>)
    \/ \E fn \in BOOLEAN : TouchCall(ConfigureOnEvict(fn), <<>>)
    \/ TouchCall(Tick, <<>>)
    \/ Return

SpecTouch == Init /\ [][NextTouch]_vars

----------------------------------------------------------------------------
(* Goroutines.  Each goroutine makes one call at a time; pc[g] holds the   *)
(* method it is in (op), where it is in the method (at), its arguments     *)
(* (key; arg: the ttl of Set, the capacity of Configure) and its locals    *)
(* (it: the item Set has built or Get has loaded).  A method takes c.mu    *)
(* (at "lock"), runs the statements of its body one step at a time and     *)
(* releases c.mu by its deferred Unlock (at "unlock"); Configure takes no  *)
(* lock.  The results of the calls are not kept: last, evicted and written *)
(* stay as they are.  When OnEvicted is a function that calls a method of  *)
(* the same cache, the goroutine is inside removeElement at that call (at  *)
(* "notify", cb: the method called) and then in the called method (at      *)
(* "nested") before it goes on with the method that removed the entry.     *)

ConcKeys == {"a", "b"}
ConcTTLs == {0, 1}

(* a variant of LockMode in which every method takes the read lock *)
LockModeShared(op) ==
    IF op \in {"Set", "Get", "Delete", "Has", "Keys", "Len", "SaveFile"} THEN "RLock" ELSE "none"

(* what a method does with c.mu on entry *)
LockMode(op) ==
    IF op \in {"Set", "Get", "Delete", "MGet", "MSet", "Clear", "LoadFile"} THEN "Lock"
    ELSE IF op \in {"Has", "Keys", "Len", "SaveFile"} THEN "RLock"
    ELSE "none"

(* the first statement of the body of a method *)
FirstStep(op) ==
    IF op = "Set" THEN "find"
    ELSE IF op = "Get" THEN "load"
    ELSE IF op = "Delete" THEN "remove"
    ELSE IF op = "Configure" THEN "write"
    ELSE IF op \in {"MGet", "MSet", "Clear", "LoadFile"} THEN "whole"
    ELSE "read"

(* a variant of CanRLock for a lock that a goroutine may take again *)
CanRLockAgain == TRUE

(* a variant of CanLock that does not wait for the readers *)
CanLockIgnoreReaders == mu.w = NoOne

(* sync.RWMutex: Lock waits until no goroutine holds the lock or the read  *)
(* lock, RLock until no goroutine holds the lock                           *)
CanLock == mu.w = NoOne /\ mu.r = {}

CanRLock == mu.w = NoOne

rest == <<serializers, file, now, last, evicted, written, setRun, deadline, refreshed,
          build, scanned, prior, saved, touched>>

Store(c) ==
    /\ items' = c.items
    /\ lruList' = c.lruList
    /\ lruMap' = c.lruMap

Goto(g, at) == pc' = [pc EXCEPT ![g].at = at]

(* a goroutine calls a method *)
Begin(g, op, key, arg) ==
    /\ pc[g] = Resting
    /\ pc' = [pc EXCEPT ![g] = [op |-> op, key |-> key, arg |-> arg, it |-> NoItem, cb |-> "",
                                at |-> IF LockMode(op) = "none" THEN FirstStep(op)
                                       ELSE "lock"]]
    /\ UNCHANGED <<cvars, opt, mu, rest>>

(* the method whose lock statements the goroutine is at: the method it    *)
(* called or, from inside OnEvicted, the method OnEvicted calls            *)
Running(p) == IF p.at \in {"notify", "nested"} THEN p.cb ELSE p.op

(* where Set, Get and Delete go on after removeElement has returned *)
AfterRemoval(op) == IF op = "Set" THEN "store" ELSE "unlock"

(* c.mu.Lock() or c.mu.RLock() *)
Acquire(g) ==
    /\ pc[g].at \in {"lock", "notify"}
    /\ IF LockMode(Running(pc[g])) = "Lock"
       THEN CanLock /\ mu' = [mu EXCEPT !.w = g]
       ELSE CanRLock /\ mu' = [mu EXCEPT !.r = @ \cup {g}]
    /\ Goto(g, IF pc[g].at = "lock" THEN FirstStep(pc[g].op) ELSE "nested")
    /\ UNCHANGED <<cvars, opt, rest>>

(* a variant of Release that leaves c.mu as it is: a method without its    *)
(* deferred Unlock                                                         *)
ReleaseKeep(g) ==
    /\ pc[g].at \in {"unlock", "nested"}
    /\ pc' = [pc EXCEPT ![g] = Resting]
    /\ UNCHANGED <<cvars, opt, mu, rest>>

(* the deferred c.mu.Unlock() or c.mu.RUnlock(), and the return *)
Release(g) ==
    /\ pc[g].at \in {"unlock", "nested"}
    /\ mu' = IF LockMode(Running(pc[g])) = "Lock"
             THEN [mu EXCEPT !.w = NoOne]
             ELSE [mu EXCEPT !.r = @ \ {g}]
    /\ pc' = IF pc[g].at = "unlock"
             THEN [pc EXCEPT ![g] = Resting]
             ELSE [pc EXCEPT ![g].at = AfterRemoval(pc[g].op), ![g].cb = ""]
    /\ UNCHANGED <<cvars, opt, rest>>

(* Set: exp, and the key that is already stored *)
SetFind(g) ==
    /\ pc[g].at = "find"
    /\ LET key == pc[g].key
           it == Item(StrVal, ExpOf(now, pc[g].arg))
       IN IF key \in DOMAIN lruMap
          THEN LET m == ListMoveToFront(Cur, lruMap[key])
               IN /\ Store([m EXCEPT !.items = MapSet(m.items, key, it)])
                  /\ Goto(g, "unlock")
          ELSE /\ pc' = [pc EXCEPT ![g].at = "room", ![g].it = it]
               /\ UNCHANGED cvars
    /\ UNCHANGED <<opt, mu, rest>>

(* Set: the capacity check and the eviction *)
SetRoom(g) ==
    /\ pc[g].at = "room"
    /\ IF Len(lruList) >= opt.Capacity
       THEN Store(evict(Cur, opt))
       ELSE UNCHANGED cvars
    /\ Goto(g, "store")
    /\ UNCHANGED <<opt, mu, rest>>

(* Set: c.items[key] = &Item{...} *)
SetStore(g) ==
    /\ pc[g].at = "store"
    /\ items' = MapSet(items, pc[g].key, pc[g].it)
    /\ Goto(g, "push")
    /\ UNCHANGED <<lruList, lruMap, opt, mu, rest>>

(* Set: elem := c.lruList.PushFront(key); c.lruMap[key] = elem *)
SetPush(g) ==
    /\ pc[g].at = "push"
    /\ LET p == ListPushFront(Cur, pc[g].key)
       IN Store([p EXCEPT !.lruMap = MapSet(p.lruMap, pc[g].key, 1)])
    /\ Goto(g, "unlock")
    /\ UNCHANGED <<opt, mu, rest>>

(* Get: it, ok := c.items[key] *)
GetLoad(g) ==
    /\ pc[g].at = "load"
    /\ IF pc[g].key \in DOMAIN items
       THEN pc' = [pc EXCEPT ![g].at = "check", ![g].it = items[pc[g].key]]
       ELSE Goto(g, "unlock")
    /\ UNCHANGED <<cvars, opt, mu, rest>>

(* Get: the expiry check and the removal of an expired entry *)
GetCheck(g) ==
    /\ pc[g].at = "check"
    /\ IF isExpired(pc[g].it, now)
       THEN Store(removeElement(Cur, pc[g].key, opt).c) /\ Goto(g, "unlock")
       ELSE UNCHANGED cvars /\ Goto(g, "touch")
    /\ UNCHANGED <<opt, mu, rest>>

(* Get: the move to the front *)
GetTouch(g) ==
    /\ pc[g].at = "touch"
    /\ IF pc[g].key \in DOMAIN lruMap
       THEN Store(ListMoveToFront(Cur, lruMap[pc[g].key]))
       ELSE UNCHANGED cvars
    /\ Goto(g, "unlock")
    /\ UNCHANGED <<opt, mu, rest>>

(* Delete: c.removeElement(key) *)
DeleteRemove(g) ==
    /\ pc[g].at = "remove"
    /\ Store(removeElement(Cur, pc[g].key, opt).c)
    /\ Goto(g, "unlock")
    /\ UNCHANGED <<opt, mu, rest>>

(* the body of Has, Keys, Len or SaveFile (to a file that is not tracked)  *)
Read(g) ==
    /\ pc[g].at = "read"
    /\ Goto(g, "unlock")
    /\ UNCHANGED <<cvars, opt, mu, rest>>

(* Configure(WithCapacity(arg)): fn(&c.opt) *)
ConfigureWrite(g) ==
    /\ pc[g].at = "write"
    /\ opt' = [opt EXCEPT !.Capacity = pc[g].arg]
    /\ pc' = [pc EXCEPT ![g] = Resting]
    /\ UNCHANGED <<cvars, mu, rest>>

NextConc ==
    \/ \E g \in Goroutines, k \in ConcKeys, t \in ConcTTLs : Begin(g, "Set", k, t)
    \/ \E g \in Goroutines, k \in ConcKeys : Begin(g, "Get", k, 0)
    \/ \E g \in Goroutines, k \in ConcKeys : Begin(g, "Delete", k, 0)
    \/ \E g \in Goroutines, op \in {"Has", "Keys", "Len", "SaveFile"} : Begin(g, op, "", 0)
    \/ \E g \in Goroutines, n \in 1..MaxCap : Begin(g, "Configure", "", n)
    \/ \E g \in Goroutines : Acquire(g)
    \/ \E g \in Goroutines : Release(g)
    \/ \E g \in Goroutines : SetFind(g)
    \/ \E g \in Goroutines : SetRoom(g)
    \/ \E g \in Goroutines : SetStore(g)
    \/ \E g \in Goroutines : SetPush(g)
    \/ \E g \in Goroutines : GetLoad(g)
    \/ \E g \in Goroutines : GetCheck(g)
    \/ \E g \in Goroutines : GetTouch(g)
    \/ \E g \in Goroutines : DeleteRemove(g)
    \/ \E g \in Goroutines : Read(g)
    \/ \E g \in Goroutines : ConfigureWrite(g)
    \/ Call(Tick)

InitConc == Init /\ opt.OnEvicted

----------------------------------------------------------------------------
(* Scenario: the goroutines call every locking method, at one clock value, *)
(* with an OnEvicted that returns without calling the cache.  MGet, MSet,  *)
(* Clear and LoadFile run their body in one step, on one key; LoadFile     *)
(* finds no file (arg 0) or a file that holds its key (arg 1).  The lock   *)
(* is fair: a goroutine that can take it again and again gets it (strong   *)
(* fairness of Acquire); a goroutine that can run one of its statements    *)
(* runs it (weak fairness of Advance).  Nothing obliges a goroutine to     *)
(* call.                                                                   *)

(* the body of MGet, MSet, Clear or LoadFile *)
Whole(g) ==
    /\ pc[g].at = "whole"
    /\ LET key == pc[g].key
           data == [k \in {key} |-> [v |-> JSONEncode(StrVal), e |-> 0]]
       IN Store(IF pc[g].op = "Clear" THEN reset(Cur)
                ELSE IF pc[g].op = "MGet"
                THEN mGetLoop(Cur, EmptyMap, <<key>>, UnixMilli(now)).c
                ELSE IF pc[g].op = "MSet"
                THEN mSetLoop(Cur, written, <<key>>, [k \in {key} |-> StrVal],
                              ExpOf(now, 0), opt).c
                ELSE IF pc[g].arg = 0 THEN Cur
                ELSE loadLoop(reset(Cur), <<key>>, data, UnixMilli(now)))
    /\ Goto(g, "unlock")
    /\ UNCHANGED <<opt, mu, rest>>

(* a statement of the method the goroutine is in, up to its return *)
Advance(g) ==
    \/ SetFind(g) \/ SetRoom(g) \/ SetStore(g) \/ SetPush(g)
    \/ GetLoad(g) \/ GetCheck(g) \/ GetTouch(g)
    \/ DeleteRemove(g) \/ Read(g) \/ Whole(g)
    \/ Release(g)

NextLive ==
    \/ \E g \in Goroutines, k \in ConcKeys : Begin(g, "Set", k, 0)
    \/ \E g \in Goroutines, k \in ConcKeys, op \in {"Get", "Delete"} : Begin(g, op, k, 0)
    \/ \E g \in Goroutines, op \in {"Has", "Keys", "Len", "SaveFile"} : Begin(g, op, "", 0)
    \/ \E g \in Goroutines, k \in ConcKeys, op \in {"MGet", "MSet", "Clear"} :
          Begin(g, op, k, 0)
    \/ \E g \in Goroutines, k \in ConcKeys, found \in {0, 1} : Begin(g, "LoadFile", k, found)
    \/ \E g \in Goroutines : Acquire(g)
    \/ \E g \in Goroutines : Advance(g)

FairLive ==
    \A g \in Goroutines : SF_vars(Acquire(g)) /\ WF_vars(Advance(g))

SpecLive == InitConc /\ [][NextLive]_vars /\ FairLive

----------------------------------------------------------------------------
(* Scenario: OnEvicted may call a method of the cache it observes: Len or  *)
(* Has, or Get or Delete of the key it is told.  The call is made by       *)
(* removeElement, from the eviction of Set, the expiry of Get or Delete,   *)
(* after the entry is deleted, so that the body of a Get or Delete of that *)
(* key finds nothing to do.                                                *)

CallbackOps == {"Len", "Has", "Get", "Delete"}

(* the key removeElement is called with at the statement the goroutine is  *)
(* at, in a set; empty when the statement removes nothing                  *)
Removing(g) ==
    IF pc[g].at = "room"
    THEN (IF Len(lruList) >= opt.Capacity /\ lruList # <<>>
          THEN {lruList[Len(lruList)]} ELSE {})
    ELSE IF pc[g].at = "check"
    THEN (IF isExpired(pc[g].it, now) THEN {pc[g].key} ELSE {})
    ELSE IF pc[g].at = "remove" THEN {pc[g].key}
    ELSE {}

(* removeElement up to the call of OnEvicted, which calls the method cb *)
Notify(g, cb) ==
    /\ opt.OnEvicted
    /\ \E key \in Removing(g) \cap DOMAIN items :
          Store(removeElement(Cur, key, opt).c)
    /\ pc' = [pc EXCEPT ![g].at = "notify", ![g].cb = cb]
    /\ UNCHANGED <<opt, mu, rest>>

NextCallback ==
    \/ NextConc
    \/ \E g \in Goroutines, cb \in CallbackOps : Notify(g, cb)

SpecCallback == InitConc /\ [][NextCallback]_vars

SpecConc == InitConc /\ [][NextConc]_vars

----------------------------------------------------------------------------
(* Claims *)

Stored == DOMAIN items
ListKeys == {lruList[i] : i \in DOMAIN lruList}
NotExpiredAt(it, t) == it.Exp = 0 \/ UnixMilli(t) <= it.Exp

(* C1: in every state reached immediately after a Set or MSet returns,     *)
(* the number of stored entries is at most the configured capacity.        *)
C1_CapacityAfterSet ==
    last.op \in {"Set", "MSet"} => Cardinality(Stored) <= opt.Capacity

(* C2: after every public operation returns, the key set of the entry map, *)
(* the key set of the index map and the set of keys in the recency list    *)
(* are identical, and the recency list holds no key twice.                 *)
C2_Bijection ==
    /\ Stored = DOMAIN lruMap
    /\ Stored = ListKeys
    /\ \A i, j \in DOMAIN lruList : i # j => lruList[i] # lruList[j]

(* an expired entry has just been reaped by Get from a cache that keeps    *)
(* other entries                                                           *)
C2_Witness ==
    /\ last.op = "Get"
    /\ last.victims = <<last.key>>
    /\ Cardinality(Stored) >= 1

(* C3, as claimed: after Set of Capacity + 1 distinct new keys k1..k(C+1)  *)
(* on an empty cache, exactly k1 is evicted, onEvict was invoked exactly   *)
(* once with (k1, v1), and Keys() equals {k2..k(C+1)}.                     *)
RunRest == {setRun[i].key : i \in 2..Len(setRun)}

C3_StrictLRU ==
    Len(setRun) = opt.Capacity + 1 =>
        /\ Stored = RunRest
        /\ (last.op = "Set" /\ opt.OnEvicted) =>
               evicted = <<<<setRun[1].key, setRun[1].val>>>>
        /\ last.op = "Keys" => last.keys = RunRest

(* C3, amended: the first Capacity Sets evict nothing; the Set of k(C+1)   *)
(* evicts exactly k1 and invokes the configured onEvict exactly once, with *)
(* (k1, v1); the stored keys are then {k2..k(C+1)}, and Keys() returns     *)
(* those of them that are not expired at the time of the call.             *)
RunLive == {setRun[i].key : i \in {j \in 2..Len(setRun) :
                 \/ setRun[j].deadline = 0
                 \/ UnixMilli(now) <= UnixMilli(setRun[j].deadline)}}

C3_StrictLRUAmended ==
    /\ Len(setRun) <= opt.Capacity =>
           /\ Stored = RunKeys(setRun)
           /\ evicted = <<>>
           /\ last.victims = <<>>
    /\ Len(setRun) = opt.Capacity + 1 =>
           /\ Stored = RunRest
           /\ last.op = "Set" =>
                 /\ last.victims = <<setRun[1].key>>
                 /\ evicted = IF opt.OnEvicted
                              THEN <<<<setRun[1].key, setRun[1].val>>>>
                              ELSE <<>>
           /\ last.op = "Keys" => last.keys = RunLive

C3_Witness ==
    /\ Len(setRun) = opt.Capacity + 1
    /\ opt.Capacity >= 2
    /\ last.op = "Set"
    /\ Len(evicted) = 1

(* C4: a Set on a stored key evicts nothing and leaves the stored count    *)
(* unchanged; it replaces the value and the expiry and moves the key to    *)
(* the recency front; and when the operation right after it is a Set, or   *)
(* an MSet of keys that are all new, and it evicts with at least two keys  *)
(* stored, its first victim is not the key just refreshed.  (An MSet that  *)
(* also holds a stored key touches that key first or not, as Go ranges     *)
(* over the batch; once it has, the refreshed key is no longer the last    *)
(* one touched.)                                                           *)
C4_Step ==
    /\ \A k \in Keys :
         (Idle /\ last'.op = "Set" /\ last'.key = k /\ k \in Stored) =>
            /\ last'.victims = <<>>
            /\ evicted' = <<>>
            /\ DOMAIN items' = Stored
            /\ items'[k] = Item(last'.val,
                                IF last'.ttl > 0 THEN UnixMilli(now + last'.ttl) ELSE 0)
            /\ \A x \in Stored \ {k} : items'[x] = items[x]
            /\ lruList'[1] = k
    /\ (Idle /\ Len(refreshed) = 1 /\ Cardinality(Stored) >= 2
             /\ last'.op \in {"Set", "MSet"} /\ last'.keys \cap Stored = {}
             /\ last'.victims # <<>>) =>
            last'.victims[1] # refreshed[1]

C5_Step ==
    \A k \in Keys :
        (Idle /\ last'.op = "Get" /\ last'.key = k) =>
            IF k \in Stored /\ NotExpiredAt(items[k], now)
            THEN /\ last'.found
                 /\ k \in DOMAIN written
                 /\ last'.val = written[k]
            ELSE /\ ~last'.found
                 /\ last'.val = Nil

C5_ReadYourWrites == [][C5_Step]_vars

(* Get has returned a value that a LoadFile wrote *)
C5_Witness ==
    /\ last.op = "Get"
    /\ last.found
    /\ last.val.t = "float64"

(* C6: an entry written by Set or MSet with ttl <= 0 and not deleted,      *)
(* evicted, cleared or replaced since is found by Get with its value at    *)
(* any later clock value, and is always among Keys().                      *)
C6_Step ==
    /\ \A k \in DOMAIN deadline :
         (Idle /\ deadline[k] = 0 /\ last'.op = "Get" /\ last'.key = k) =>
            /\ last'.found
            /\ last'.val = written[k]
    /\ \A k \in DOMAIN deadline' :
         deadline'[k] = 0 =>
            /\ k \in KeysOf(items', UnixMilli(now'))
            /\ last'.op = "Keys" => k \in last'.keys

C6_NeverExpires == [][C6_Step]_vars

(* Get has found an entry written with ttl <= 0 after the clock has run to *)
(* its bound                                                               *)
C6_Witness ==
    /\ last.op = "Get"
    /\ last.found
    /\ last.key \in DOMAIN deadline
    /\ deadline[last.key] = 0
    /\ now = MaxClock

(* C7, as claimed: for an entry written at t0 with ttl > 0 and still in    *)
(* force, Get finds it at every clock value before t0 + ttl and does not   *)
(* find it at any clock value strictly after t0 + ttl.                     *)
C7_StepClaimed ==
    \A k \in DOMAIN deadline :
        (Idle /\ deadline[k] > 0 /\ last'.op = "Get" /\ last'.key = k) =>
            /\ now < deadline[k] => last'.found
            /\ now > deadline[k] => ~last'.found

C7_ExpiresAfterTTL == [][C7_StepClaimed]_vars

(* C7, amended: Get finds the entry, with its value, at every clock value  *)
(* whose millisecond is not after the millisecond of t0 + ttl (so at every *)
(* clock value before t0 + ttl), and does not find it at any clock value   *)
(* whose millisecond is after it (so from one millisecond past t0 + ttl).  *)
C7_StepAmended ==
    \A k \in DOMAIN deadline :
        (Idle /\ deadline[k] > 0 /\ last'.op = "Get" /\ last'.key = k) =>
            /\ last'.found <=> UnixMilli(now) <= UnixMilli(deadline[k])
            /\ last'.found => last'.val = written[k]
            /\ now < deadline[k] => last'.found
            /\ now >= deadline[k] + TicksPerMilli => ~last'.found

C7_ExpiresAfterTTLAmended == [][C7_StepAmended]_vars

(* Get has found an entry strictly after its deadline, within the          *)
(* deadline's millisecond                                                  *)
C7_Witness ==
    /\ last.op = "Get"
    /\ last.found
    /\ last.key \in DOMAIN deadline
    /\ deadline[last.key] > 0
    /\ now > deadline[last.key]

(* C8: a Get on a key whose stored entry is expired returns found = false, *)
(* removes the entry from the entry map, the index and the recency list,   *)
(* so that the stored count drops by one, and invokes the configured       *)
(* onEvict exactly once, with the key and its stored value.                *)
C8_Step ==
    \A k \in Keys :
        (Idle /\ last'.op = "Get" /\ last'.key = k
              /\ k \in Stored /\ ~NotExpiredAt(items[k], now)) =>
            /\ ~last'.found
            /\ last'.val = Nil
            /\ k \notin DOMAIN items'
            /\ k \notin DOMAIN lruMap'
            /\ \A i \in DOMAIN lruList' : lruList'[i] # k
            /\ Cardinality(DOMAIN items') = Cardinality(Stored) - 1
            /\ Len(lruList') = Len(lruList) - 1
            /\ evicted' = IF opt.OnEvicted THEN <<<<k, items[k].Val>>>> ELSE <<>>

C8_LazyExpiry == [][C8_Step]_vars

C8_Witness ==
    /\ last.op = "Get"
    /\ ~last.found
    /\ Len(evicted) = 1
    /\ evicted[1][1] = last.key
    /\ last.key \notin Stored

(* C9: Has(key) returns true exactly when the key is stored, expired or    *)
(* not.                                                                    *)
C9_HasIgnoresExpiry ==
    last.op = "Has" => (last.found <=> last.key \in Stored)

(* Has has returned true for an entry that is expired *)
C9_Witness ==
    /\ last.op = "Has"
    /\ last.found
    /\ last.key \in Stored
    /\ ~NotExpiredAt(items[last.key], now)

(* C10: at every clock value Len() >= len(Keys()): Len counts every stored *)
(* entry, expired or not, and Keys returns the stored keys that are not    *)
(* expired.                                                                *)
C10_LenGeKeys ==
    /\ LenOf(items) >= Cardinality(KeysOf(items, UnixMilli(now)))
    /\ last.op = "Len" => last.n = Cardinality(Stored)
    /\ last.op = "Keys" => last.keys = {k \in Stored : NotExpiredAt(items[k], now)}

(* Len has counted an entry that Keys leaves out *)
C10_Witness ==
    /\ last.op = "Len"
    /\ last.n > Cardinality(KeysOf(items, UnixMilli(now)))

C11_Step ==
    /\ DOMAIN items' \subseteq scanned' =>
           LenOf(items') = Cardinality(KeysOf(items', UnixMilli(now')))
    /\ (Idle /\ last'.op \in {"MGet", "Keys"}) => items' = items

C12_Step ==
    \A k \in Keys :
        (Idle /\ k \notin Stored /\ last'.key = k
              /\ last'.op \in {"Get", "Delete", "Has"}) =>
            /\ ~last'.found
            /\ last'.val = Nil
            /\ ~last'.err
            /\ items' = items
            /\ lruList' = lruList
            /\ lruMap' = lruMap
            /\ evicted' = <<>>
            /\ last'.victims = <<>>

C12_AbsentKeyNoOp == [][C12_Step]_vars

(* Delete has returned false on a cache that stores other keys and has an  *)
(* observer                                                                *)
C12_Witness ==
    /\ last.op = "Delete"
    /\ ~last.found
    /\ last.key \notin Stored
    /\ Stored # {}
    /\ opt.OnEvicted

(* C13: Clear() leaves Len() = 0, Keys() empty and no key stored that was  *)
(* stored before (Has is false for it), and invokes onEvict for none of    *)
(* the removed entries.                                                    *)
C13_ClearEmpties ==
    last.op = "Clear" =>
        /\ LenOf(items) = 0
        /\ KeysOf(items, UnixMilli(now)) = {}
        /\ \A k \in DOMAIN prior.items : k \notin DOMAIN items
        /\ lruList = <<>>
        /\ lruMap = EmptyMap
        /\ evicted = <<>>
        /\ last.victims = <<>>

(* Clear has returned on a cache that stored two entries and has an        *)
(* observer                                                                *)
C13_Witness ==
    /\ last.op = "Clear"
    /\ Cardinality(DOMAIN prior.items) = 2
    /\ opt.OnEvicted

(* C14: SaveFile(f); Clear(); LoadFile(f) restores every entry that was    *)
(* stored and not expired when SaveFile ran and is not expired when        *)
(* LoadFile runs, with its original value; an entry that was expired when  *)
(* SaveFile ran is not in the loaded cache.                                *)
C14_RoundTrip ==
    (last.op = "LoadFile" /\ saved.stage = "loaded") =>
        \A k \in DOMAIN saved.items :
            /\ (~isExpired(saved.items[k], saved.at) /\ ~isExpired(saved.items[k], now)) =>
                   /\ k \in Stored
                   /\ items[k].Val = saved.items[k].Val
            /\ isExpired(saved.items[k], saved.at) => k \notin Stored

(* C15: SaveFile on a cache that stores no entry, or only entries that are *)
(* expired at the time of the save, returns nil and leaves the target file *)
(* as it was: not created, not truncated, an earlier snapshot intact.      *)
C15_Step ==
    (Idle /\ last'.op = "SaveFile"
          /\ \A k \in Stored : isExpired(items[k], now)) =>
        /\ ~last'.err
        /\ file' = file
        /\ items' = items
        /\ lruList' = lruList

C15_EmptySaveKeepsFile == [][C15_Step]_vars

(* SaveFile has returned on a cache whose entries are all expired, with an *)
(* earlier snapshot in the file                                            *)
C15_Witness ==
    /\ last.op = "SaveFile"
    /\ ~last.err
    /\ Stored # {}
    /\ \A k \in Stored : isExpired(items[k], now)
    /\ file.kind = "json"

(* C17: after a successful LoadFile the stored keys are exactly the keys   *)
(* of the decoded entries whose expiry is 0 or not before the clock at the *)
(* time of the load, each with its decoded value and expiry; what was      *)
(* stored before and is not in the file is gone, and onEvict is invoked    *)
(* for none of the discarded entries.                                      *)
C17_Step ==
    (Idle /\ last'.op = "LoadFile" /\ ~last'.err) =>
        /\ DOMAIN items' = {k \in DOMAIN file.data :
                               \/ file.data[k].e = 0
                               \/ file.data[k].e >= UnixMilli(now)}
        /\ \A k \in DOMAIN items' :
              items'[k] = Item(JSONDecode(file.data[k].v), file.data[k].e)
        /\ ListKeys' = DOMAIN items'
        /\ DOMAIN lruMap' = DOMAIN items'
        /\ evicted' = <<>>
        /\ last'.victims = <<>>

C17_LoadReplaces == [][C17_Step]_vars

(* LoadFile has restored an entry, dropped an entry that expired in the    *)
(* file and discarded an entry that was stored before                      *)
C17_Witness ==
    /\ last.op = "LoadFile"
    /\ ~last.err
    /\ Stored # {}
    /\ \E k \in DOMAIN file.data : k \notin Stored
    /\ \E k \in DOMAIN prior.items : k \notin Stored
    /\ opt.OnEvicted

(* C16: when LoadFile fails to open the file, to resolve the serializer or *)
(* to decode the content, it returns the error and leaves the stored       *)
(* entries, the recency order and the onEvict invocations as they were.    *)
C16_Step ==
    (Idle /\ last'.op = "LoadFile") =>
        /\ (\/ file.kind = "none"
            \/ opt.Serializer \notin serializers
            \/ file.kind = "empty") => last'.err
        /\ last'.err =>
              /\ items' = items
              /\ lruList' = lruList
              /\ lruMap' = lruMap
              /\ evicted' = <<>>
              /\ last'.victims = <<>>

C16_LoadAtomic == [][C16_Step]_vars

(* LoadFile has failed to decode the file, with a registered serializer,   *)
(* on a cache that stores entries                                          *)
C16_Witness ==
    /\ last.op = "LoadFile"
    /\ last.err
    /\ file.kind = "empty"
    /\ opt.Serializer \in serializers
    /\ Impl(opt.Serializer) = "json"
    /\ Stored # {}

(* C18: WithSerializer(name) panics exactly when name is not registered    *)
(* at the time of the call, and then the serializer name and the other     *)
(* options of the cache are as before; when name is registered, Configure  *)
(* sets the serializer name of the cache to it.                            *)
C18_Step ==
    \A name \in Names :
        (Idle /\ last'.key = name /\ last'.op \in {"WithSerializer", "Configure"}) =>
            /\ last'.err <=> name \notin serializers
            /\ last'.err <=> last'.op = "WithSerializer"
            /\ last'.err => opt' = opt
            /\ ~last'.err => opt' = [opt EXCEPT !.Serializer = name]

C18_FailFast == [][C18_Step]_vars

(* WithSerializer has panicked on a name that was registered before, in a  *)
(* cache configured with another name                                      *)
C18_Witness ==
    /\ last.op = "WithSerializer"
    /\ last.err
    /\ last.key = "json"
    /\ opt.Serializer = "json2"

(* C19: a name is registered exactly when the last SetSerializer call for  *)
(* it passed a non-nil serializer, or when it is builtin and was never     *)
(* set: SetSerializer(name, s) with s non-nil registers name,              *)
(* SetSerializer(name, nil) removes it, and nothing else changes the       *)
(* registry.                                                               *)
C19_Step ==
    /\ \A name \in Names :
         (Idle /\ last'.op = "SetSerializer" /\ last'.key = name) =>
            serializers' = IF last'.found THEN serializers \cup {name}
                           ELSE serializers \ {name}
    /\ serializers' # serializers => last'.op = "SetSerializer"

C19_Registry == [][C19_Step]_vars

(* C20, as claimed: when the serializer name of the cache is not           *)
(* registered, SaveFile and LoadFile return an error and leave the stored  *)
(* entries and the recency order as they were.                             *)
C20_StepClaimed ==
    (Idle /\ opt.Serializer \notin serializers
          /\ last'.op \in {"SaveFile", "LoadFile"}) =>
        /\ last'.err
        /\ items' = items
        /\ lruList' = lruList
        /\ lruMap' = lruMap

C20_UnregisteredFails == [][C20_StepClaimed]_vars

(* C20, amended: when the serializer name of the cache is not registered,  *)
(* LoadFile returns an error, and SaveFile returns an error exactly when   *)
(* an entry is stored that is not expired (with none it returns nil before *)
(* it resolves the serializer); both leave the stored entries and the      *)
(* recency order as they were.                                             *)
C20_StepAmended ==
    (Idle /\ opt.Serializer \notin serializers
          /\ last'.op \in {"SaveFile", "LoadFile"}) =>
        /\ last'.op = "LoadFile" => last'.err
        /\ last'.op = "SaveFile" =>
              (last'.err <=> \E k \in Stored : ~isExpired(items[k], now))
        /\ items' = items
        /\ lruList' = lruList
        /\ lruMap' = lruMap
        /\ evicted' = <<>>

C20_UnregisteredFailsAmended == [][C20_StepAmended]_vars

(* SaveFile has returned an error for a serializer name that is no longer  *)
(* registered, on a cache that stores an entry                             *)
C20_Witness ==
    /\ last.op = "SaveFile"
    /\ last.err
    /\ opt.Serializer \notin serializers
    /\ Stored # {}

(* C21: a SaveFile call that returns an error leaves the content of the    *)
(* target file as it was: the file holds the old snapshot or the complete  *)
(* new one.                                                                *)
C21_Step ==
    (Idle /\ last'.op = "SaveFile") =>
        /\ last'.err => file' = file
        /\ file' = file \/ file'.kind = "json"

C21_SaveAtomic == [][C21_Step]_vars

(* the calls Get(keys[1]), ..., Get(keys[n]) one after the other on the    *)
(* cache record c at the time nowT; res maps each key to the value its Get *)
(* returned                                                                *)
RECURSIVE getSeq(_, _, _, _, _)
getSeq(c, res, keys, nowT, o) ==
    IF keys = <<>> THEN [c |-> c, res |-> res]
    ELSE LET g == getItem(c, Head(keys), nowT, o)
         IN getSeq(g.c, MapSet(res, Head(keys), g.val), Tail(keys), nowT, o)

(* the keys of the batch whose entry is stored and expired *)
ExpiredIn(keys) ==
    {k \in {keys[i] : i \in DOMAIN keys} : k \in DOMAIN items /\ isExpired(items[k], now)}

(* C25 as stated: MGet(k1, ..., kn) returns for every key what Get        *)
(* returns and leaves the cache in the state the calls Get(k1), ...,       *)
(* Get(kn) leave it in: an expired entry it touches is removed and the     *)
(* observer is told.                                                       *)
C25_StepStated ==
    (Idle /\ last'.op = "MGet") =>
        LET g == getSeq(Cur, EmptyMap, last'.batch, now, opt)
        IN /\ last'.res = g.res
           /\ items' = g.c.items
           /\ lruList' = g.c.lruList
           /\ lruMap' = g.c.lruMap
           /\ evicted' = g.c.evicted

C25_Step ==
    (Idle /\ last'.op = "MGet") =>
        LET g == getSeq(Cur, EmptyMap, last'.batch, now, opt)
            dead == ExpiredIn(last'.batch)
        IN /\ last'.res = g.res
           /\ items' = items
           /\ evicted' = <<>>
           /\ g.c.items = [k \in DOMAIN items \ dead |-> items[k]]
           /\ g.c.lruList = SelectSeq(lruList', LAMBDA k : k \notin dead)
           /\ DOMAIN lruMap' = DOMAIN items'
           /\ dead = {} => (lruList' = g.c.lruList /\ lruMap' = g.c.lruMap)

RECURSIVE setSeq(_, _, _, _, _)
setSeq(c, order, m, exp, o) ==
    IF order = <<>> THEN c
    ELSE setSeq(setItem(c, Head(order), m[Head(order)], exp, o), Tail(order), m, exp, o)

(* C26: MSet(m, ttl) leaves the cache in the state that Set(k, m[k], ttl),  *)
(* for the keys of m in some permutation, all at the clock value of the    *)
(* call, leaves it in: every item of the batch gets the same expiry, a new *)
(* key at capacity evicts exactly one entry, and an earlier item of the    *)
(* batch may be the one evicted.                                           *)
C26_Step ==
    (Idle /\ last'.op = "MSet") =>
        /\ \E order \in Orders(last'.keys) :
              LET c == setSeq(Cur, order, last'.m, ExpOf(now, last'.ttl), opt)
              IN /\ items' = c.items
                 /\ lruList' = c.lruList
                 /\ lruMap' = c.lruMap
                 /\ evicted' = c.evicted
                 /\ last'.victims = c.victims
        /\ \A k \in last'.keys \cap DOMAIN items' :
              items'[k] = Item(last'.m[k], ExpOf(now, last'.ttl))
        /\ Len(last'.victims) <= Cardinality(last'.keys)

C26_MSetIsSets == [][C26_Step]_vars

C26_Witness ==
    /\ last.op = "MSet"
    /\ Cardinality(last.keys) = 2
    /\ \E i \in DOMAIN last.victims : last.victims[i] \in last.keys
    /\ Cardinality(last.keys \cap DOMAIN items) = 1

(* the keys the observer was called with by the returning operation *)
Notified(ev) == {ev[i][1] : i \in DOMAIN ev}

(* C27: when an observer is configured, it is called exactly once for      *)
(* each entry removed by a capacity eviction, by a Delete that found its   *)
(* key, or by the lazy expiry in Get, with the key and the value most      *)
(* recently stored under it; Clear, the reset of LoadFile, an overwrite by *)
(* Set or MSet and the operations that remove nothing never call it, and   *)
(* without an observer nothing is called.                                  *)
C27_Step ==
    (Idle /\ last'.op # "") =>
        LET gone == DOMAIN items \ DOMAIN items'
        IN /\ ~opt.OnEvicted => evicted' = <<>>
           /\ last'.op \notin {"Set", "MSet", "Get", "Delete"} => evicted' = <<>>
           /\ (opt.OnEvicted /\ last'.op \in {"Set", "Get", "Delete"}) =>
                 /\ Notified(evicted') = gone
                 /\ Len(evicted') = Cardinality(gone)
                 /\ \A i \in DOMAIN evicted' :
                       /\ evicted'[i][2] = items[evicted'[i][1]].Val
                       /\ evicted'[i][2] = written[evicted'[i][1]]
           /\ (opt.OnEvicted /\ last'.op = "Set" /\ last'.key \in DOMAIN items) =>
                 evicted' = <<>>
           /\ (opt.OnEvicted /\ last'.op = "Get") =>
                 (evicted' # <<>> <=>
                    (last'.key \in DOMAIN items /\ isExpired(items[last'.key], now)))
           /\ (opt.OnEvicted /\ last'.op = "Delete") =>
                 (evicted' # <<>> <=> last'.key \in DOMAIN items)
           /\ (opt.OnEvicted /\ last'.op = "MSet") =>
                 /\ gone \subseteq Notified(evicted')
                 /\ Len(evicted') = Len(last'.victims)
                 /\ Len(evicted') <= Cardinality(last'.keys)
                 /\ last'.keys \subseteq DOMAIN items => evicted' = <<>>
                 /\ \A i \in DOMAIN evicted' :
                       LET k == evicted'[i][1]
                       IN /\ evicted'[i][1] = last'.victims[i]
                          /\ k \in DOMAIN items \cup last'.keys
                          /\ k \notin last'.keys => evicted'[i][2] = written[k]
                          /\ k \notin DOMAIN items => evicted'[i][2] = last'.m[k]
                          /\ evicted'[i][2] \in
                                {written[x] : x \in {k} \cap DOMAIN written} \cup
                                {last'.m[x] : x \in {k} \cap last'.keys}

C27_ObserverAccounting == [][C27_Step]_vars

C27_Witness ==
    /\ last.op = "Get"
    /\ ~last.found
    /\ Len(evicted) = 1
    /\ evicted[1][1] = last.key
    /\ Stored # {}

(* C29: Keys, Len, Has and SaveFile leave the entry map, the recency     *)
(* index and the recency order exactly as they were, expired entries       *)
(* included, and never call the observer.                                  *)
C29_Step ==
    (Idle /\ last'.op \in {"Keys", "Len", "Has", "SaveFile"}) =>
        /\ items' = items
        /\ lruMap' = lruMap
        /\ lruList' = lruList
        /\ evicted' = <<>>

C29_ReadOnly == [][C29_Step]_vars

C29_Witness ==
    /\ last.op = "Keys"
    /\ last.keys # {}
    /\ \E k \in Stored \ last.keys : isExpired(items[k], now)

(* C28: in a cache never populated by LoadFile the recency list holds     *)
(* the stored keys ordered by their last touch (a write by Set or MSet, a  *)
(* Get or MGet that found the key live), the most recent at the front;     *)
(* Has, Keys, Len and SaveFile touch nothing.  A Set, or an MSet of one    *)
(* key, of a new key at capacity removes exactly one entry, the one at the *)
(* back: the stored key whose last touch is the oldest; below capacity it  *)
(* removes nothing.                                                        *)
C28_Step ==
    /\ lruList' = touched'
    /\ (Idle /\ last'.op \in {"Has", "Keys", "Len", "SaveFile"}) => touched' = touched
    /\ (Idle /\ (last'.op = "Set" \/ (last'.op = "MSet" /\ Cardinality(last'.keys) = 1))) =>
          LET k == IF last'.op = "Set" THEN last'.key ELSE CHOOSE x \in last'.keys : TRUE
              gone == DOMAIN items \ DOMAIN items'
          IN IF k \notin DOMAIN items /\ Cardinality(DOMAIN items) >= opt.Capacity
             THEN /\ gone = {touched[Len(touched)]}
                  /\ gone = {lruList[Len(lruList)]}
                  /\ Cardinality(DOMAIN items') = Cardinality(DOMAIN items)
             ELSE gone = {}

C28_RecencyOrder == [][C28_Step]_vars

C28_Witness ==
    /\ last.op = "Set"
    /\ last.victims # <<>>
    /\ Len(touched) = 2
    /\ \E k \in Stored : isExpired(items[k], now)

(* C30: when the capacity is the one given at construction, at least 1,   *)
(* and LoadFile is never called, the number of stored entries is at most   *)
(* the capacity in every reachable state.                                  *)
C30_CapacityAlways ==
    /\ Cardinality(Stored) <= opt.Capacity
    /\ Len(lruList) <= opt.Capacity

C30_Witness ==
    /\ last.op = "MSet"
    /\ last.victims # <<>>
    /\ Cardinality(Stored) = opt.Capacity
    /\ opt.Capacity = MaxCap

(* a goroutine is between taking c.mu and releasing it *)
InCS(g) == pc[g].at \notin {"idle", "lock", "write"}

(* a goroutine is in the middle of the statements of Set, Get or Delete *)
Writing(g) == pc[g].at \in {"find", "room", "store", "push", "load", "check", "touch", "remove"}

(* C22: whatever the interleaving of concurrent calls of Set, Get and the  *)
(* other methods that take the lock, the entry map, the recency index and  *)
(* the recency list hold the same keys and have the same size whenever no  *)
(* call is in the middle of its body, and so once all calls have returned. *)
C22_ConcurrentBijection ==
    (\A g \in Goroutines : ~Writing(g)) =>
        /\ DOMAIN items = DOMAIN lruMap
        /\ DOMAIN items = ListKeys
        /\ Len(lruList) = Cardinality(DOMAIN items)
        /\ \A k \in DOMAIN lruMap : lruMap[k] \in DOMAIN lruList /\ lruList[lruMap[k]] = k

C22_Witness ==
    /\ pc["g1"].op = "Set" /\ pc["g1"].at = "unlock"
    /\ pc["g2"].op = "Get" /\ pc["g2"].at = "lock"
    /\ Cardinality(Stored) = 2
    /\ lruList[1] = pc["g1"].key

(* the goroutine is at a statement that reads or writes c.opt: the       *)
(* capacity check of Set, a removeElement (it reads OnEvicted), the        *)
(* serializer lookup of SaveFile, the write of Configure                   *)
AccessesOpt(g) ==
    \/ pc[g].at \in {"room", "write"}
    \/ pc[g].at = "remove" /\ pc[g].key \in DOMAIN items
    \/ pc[g].at = "check" /\ isExpired(pc[g].it, now)
    \/ pc[g].at = "read" /\ pc[g].op = "SaveFile" /\ saveData(items, UnixMilli(now)) # EmptyMap

HoldsLock(g) == mu.w = g \/ g \in mu.r

(* C23: every read and every write of the options of the cache, the write *)
(* by Configure included, is made by a goroutine that holds the lock, and  *)
(* no goroutine writes the options while another one is in a method that   *)
(* reads them.                                                             *)
C23_OptionsUnderLock ==
    /\ \A g \in Goroutines : AccessesOpt(g) => HoldsLock(g)
    /\ \A g, h \in Goroutines :
          (g # h /\ pc[g].at = "write") => ~(AccessesOpt(h) /\ pc[h].at # "write")

(* C24 as stated: the lock is held exclusively by every method, Keys, Len, *)
(* Has and SaveFile included: at most one goroutine is between taking the  *)
(* lock and releasing it.                                                  *)
C24_OneAtATime == Cardinality({g \in Goroutines : InCS(g)}) <= 1

(* C24, amended: the methods that change the cache (Set, Get, Delete) hold *)
(* the lock exclusively: while one of them is between taking the lock and  *)
(* releasing it, no other goroutine is.  Has, Keys, Len and SaveFile take  *)
(* the read lock: they exclude the methods that change the cache and not   *)
(* one another.  Every goroutine between taking and releasing holds the    *)
(* lock in the mode of its method.                                         *)
C24_WritersExclusive ==
    /\ \A g, h \in Goroutines :
          (g # h /\ InCS(g) /\ InCS(h)) =>
              /\ pc[g].op \in {"Has", "Keys", "Len", "SaveFile"}
              /\ pc[h].op \in {"Has", "Keys", "Len", "SaveFile"}
    /\ \A g \in Goroutines :
          InCS(g) => IF pc[g].op \in {"Has", "Keys", "Len", "SaveFile"}
                     THEN g \in mu.r /\ mu.w = NoOne
                     ELSE mu.w = g /\ mu.r = {}

C24_Witness ==
    /\ pc["g1"].op = "Keys" /\ pc["g1"].at = "read"
    /\ pc["g2"].op = "SaveFile" /\ pc["g2"].at = "unlock"
    /\ Stored # {}

(* C33: the eviction of Set looks at no expiry: when a new key is Set at  *)
(* capacity, the entry removed is the one at the back of the recency list, *)
(* with the observer told, whether or not it is expired, and every other   *)
(* entry, the expired ones included, stays stored; so a live entry can be  *)
(* evicted while an expired one remains.                                   *)
C33_Step ==
    (Idle /\ last'.op = "Set" /\ last'.key \notin DOMAIN items
          /\ Len(lruList) >= opt.Capacity) =>
        LET back == lruList[Len(lruList)]
        IN /\ DOMAIN items \ DOMAIN items' = {back}
           /\ opt.OnEvicted => evicted' = <<<<back, items[back].Val>>>>
           /\ \A k \in DOMAIN items \ {back} : items'[k] = items[k]
           /\ last'.victims = <<back>>

C33_EvictionIgnoresExpiry == [][C33_Step]_vars

C33_Witness ==
    /\ last.op = "Set"
    /\ Len(setRun) = 3
    /\ last.victims = <<setRun[1].key>>
    /\ setRun[1].deadline = 0
    /\ setRun[2].key \in Stored
    /\ isExpired(items[setRun[2].key], now)
    /\ opt.OnEvicted => evicted = <<<<setRun[1].key, setRun[1].val>>>>

(* C31: OnEvicted is called while the method that removed the entry      *)
(* (Set, Get or Delete) holds the lock exclusively; an OnEvicted that      *)
(* calls a locking method of the same cache waits for that lock for ever:  *)
(* the goroutine stays at the call, the method that removed the entry      *)
(* never returns and the lock is never released.                           *)
C31_Step ==
    \A g \in Goroutines :
        /\ pc'[g].at = "notify" =>
              /\ mu'.w = g
              /\ pc'[g].op \in {"Set", "Get", "Delete"}
        /\ pc[g].at = "notify" =>
              /\ pc'[g] = pc[g]
              /\ mu' = mu
              /\ \A h \in Goroutines : pc[h].at = "lock" => pc'[h].at = "lock"

C31_SelfDeadlock == [][C31_Step]_vars

C31_Witness ==
    /\ pc["g1"].at = "notify" /\ pc["g1"].op = "Get" /\ pc["g1"].cb = "Len"
    /\ pc["g2"].at = "lock" /\ pc["g2"].op = "Set"
    /\ mu.w = "g1"
    /\ pc["g1"].key \notin Stored

(* C32: with a fair lock and an OnEvicted that returns and does not call *)
(* the cache, every call that is made takes the lock, runs to its end and  *)
(* releases the lock: a goroutine that waits for the lock gets it, a       *)
(* goroutine in a method returns from it, and the lock is free whenever no *)
(* goroutine is in a method.                                               *)
C32_Progress ==
    /\ []((\A g \in Goroutines : pc[g] = Resting) => mu = Unlocked)
    /\ \A g \in Goroutines :
          /\ (pc[g].at = "lock") ~> HoldsLock(g)
          /\ (pc[g].at # "idle") ~> (pc[g].at = "idle")

C32_Witness ==
    /\ pc["g1"].op = "LoadFile" /\ pc["g1"].at = "unlock" /\ pc["g1"].arg = 1
    /\ pc["g2"].op = "Keys" /\ pc["g2"].at = "lock"
    /\ Len(lruList) = 1

====
